---- MODULE Spec2Model ----
(***************************************************************************)
(* Model of src/src/gildedrose.rs: the GildedRose inventory and its single *)
(* operation update_quality, with the per-category calculators it          *)
(* dispatches to.  Item names are sequences of one-character strings, so   *)
(* that `==` and str::contains are computed, not assumed.                  *)
(***************************************************************************)
EXTENDS Integers, Sequences, FiniteSets, TLC

VARIABLES items, items0, ticks

vars == <<items, items0, ticks>>

(* ------------------------------ bounds --------------------------------- *)
MaxTicks == 3
PastDays == 2
MaxSellIn == 12
QBelow == 5
QHigh == 60
MaxItems == 2

(* ------------------------- string literals ----------------------------- *)
AGED_BRIE == <<"A", "g", "e", "d", " ", "B", "r", "i", "e">>
BACKSTAGE_PASSES == <<"B", "a", "c", "k", "s", "t", "a", "g", "e", " ", "p", "a", "s", "s", "e", "s">>
SULFURAS == <<"S", "u", "l", "f", "u", "r", "a", "s">>
CONJURED == <<"C", "o", "n", "j", "u", "r", "e", "d">>

NameItem == <<"I", "t", "e", "m">>
NameOldBrie == <<"A", "g", "e", "d", " ", "B", "r", "i", "e", "!">>
NameVipPasses == <<"V", "I", "P", " ", "B", "a", "c", "k", "s", "t", "a", "g", "e", " ", "p", "a", "s", "s", "e", "s">>
NameHand == <<"S", "u", "l", "f", "u", "r", "a", "s", ",", " ", "H", "a", "n", "d">>
NameCookie == <<"C", "o", "n", "j", "u", "r", "e", "d", " ", "C", "o", "o", "k", "i", "e">>
NamePassesSulfuras == <<"S", "u", "l", "f", "u", "r", "a", "s", " ", "B", "a", "c", "k", "s", "t", "a", "g", "e", " ", "p", "a", "s", "s", "e", "s">>

Names ==
  {AGED_BRIE, NameOldBrie, BACKSTAGE_PASSES, NameVipPasses, SULFURAS, NameHand,
   NamePassesSulfuras, NameItem, CONJURED, NameCookie}

(* ------------------------------ helpers -------------------------------- *)
\* str::contains: pat occurs as a contiguous substring of s
Contains(s, pat) ==
  \E k \in 0..(Len(s) - Len(pat)) : SubSeq(s, k + 1, k + Len(pat)) = pat

\* i32::min / i32::max
Min(a, b) == IF a < b THEN a ELSE b

Max(a, b) == IF a > b THEN a ELSE b

\* Item::new
Item(name, sell_in, quality) ==
  [name |-> name, sell_in |-> sell_in, quality |-> quality]

(* ------------------------- DefaultQualityIncrement --------------------- *)
DefaultQualityIncrement_get_strict(sell_in) ==
  IF sell_in < 0 THEN -2 ELSE -1

DefaultQualityIncrement_get(sell_in) ==
  IF sell_in < 1 THEN -2 ELSE -1

(* ------------------------- CalculateSellIn (default) ------------------- *)
CalculateSellIn_floored(sell_in) ==
  Max(0, sell_in - 1)

CalculateSellIn_calculate_new_sell_in(sell_in) ==
  sell_in - 1

(* ------------------------------ AgedBrie ------------------------------- *)
AgedBrie_increment_not_negated(sell_in) ==
  DefaultQualityIncrement_get(sell_in)

AgedBrie_calculate_quality_increment(sell_in) ==
  -DefaultQualityIncrement_get(sell_in)

AgedBrie_new_quality_uncapped(sell_in, quality) ==
  quality + AgedBrie_calculate_quality_increment(sell_in)

AgedBrie_calculate_new_quality(sell_in, quality) ==
  Min(quality + AgedBrie_calculate_quality_increment(sell_in), 50)

(* --------------------------- BackstagePasses --------------------------- *)
BackstagePasses_increment_off_by_one(sell_in, quality) ==
  IF sell_in < 10 /\ sell_in > 5 THEN 2
  ELSE IF sell_in <= 5 /\ sell_in > 0 THEN 3
  ELSE IF sell_in <= 0 THEN -quality
  ELSE 1

BackstagePasses_calculate_item_quality_increment(sell_in, quality) ==
  IF sell_in < 11 /\ sell_in > 5 THEN 2
  ELSE IF sell_in <= 5 /\ sell_in > 0 THEN 3
  ELSE IF sell_in <= 0 THEN -quality
  ELSE 1

BackstagePasses_new_quality_capped_early(sell_in, quality) ==
  Min(quality + BackstagePasses_calculate_item_quality_increment(sell_in, quality), 49)

BackstagePasses_calculate_new_quality(sell_in, quality) ==
  Min(quality + BackstagePasses_calculate_item_quality_increment(sell_in, quality), 50)

(* ------------------------------ Sulfuras ------------------------------- *)
Sulfuras_calculate_new_quality(sell_in, quality) ==
  80

Sulfuras_calculate_new_sell_in(sell_in) ==
  sell_in

(* ----------------------------- DefaultItem ----------------------------- *)
DefaultItem_calculate_item_quality_increment(sell_in) ==
  DefaultQualityIncrement_get(sell_in)

DefaultItem_calculate_new_quality(sell_in, quality) ==
  Max(quality + DefaultItem_calculate_item_quality_increment(sell_in), 0)

(* --------------------------- CalculatorFactory ------------------------- *)
\* the boxed calculator is represented by the name of its type
create_calculator(item) ==
  IF item.name = AGED_BRIE THEN "AgedBrie"
  ELSE IF Contains(item.name, BACKSTAGE_PASSES) THEN "BackstagePasses"
  ELSE IF Contains(item.name, SULFURAS) THEN "Sulfuras"
  ELSE "DefaultItem"

\* dynamic dispatch of CalculateQuality::calculate_new_quality
calculate_new_quality(calc, sell_in, quality) ==
  CASE calc = "AgedBrie" -> AgedBrie_calculate_new_quality(sell_in, quality)
    [] calc = "BackstagePasses" -> BackstagePasses_calculate_new_quality(sell_in, quality)
    [] calc = "Sulfuras" -> Sulfuras_calculate_new_quality(sell_in, quality)
    [] calc = "DefaultItem" -> DefaultItem_calculate_new_quality(sell_in, quality)

\* dynamic dispatch of CalculateSellIn::calculate_new_sell_in; only Sulfuras
\* overrides the trait's default body
calculate_new_sell_in(calc, sell_in) ==
  CASE calc = "Sulfuras" -> Sulfuras_calculate_new_sell_in(sell_in)
    [] OTHER -> CalculateSellIn_calculate_new_sell_in(sell_in)

(* ------------------------------ GildedRose ----------------------------- *)
\* self is the item collection; the methods take &self and an item of it
calculate_sell_in(self, item) ==
  calculate_new_sell_in(create_calculator(item), item.sell_in)

calculate_quality_first_item(self, item) ==
  calculate_new_quality(create_calculator(self[1]), self[1].sell_in, self[1].quality)

calculate_quality(self, item) ==
  calculate_new_quality(create_calculator(item), item.sell_in, item.quality)

\* the body of `for i in 0..self.items.len()`, from index i (1-based) on:
\* quality is written first, then sell_in is computed from the updated item
RECURSIVE update_quality_loop(_, _)
update_quality_loop(self, i) ==
  IF i > Len(self) THEN self
  ELSE LET s1 == [self EXCEPT ![i].quality = calculate_quality(self, self[i])]
           s2 == [s1 EXCEPT ![i].sell_in = calculate_sell_in(s1, s1[i])]
       IN  update_quality_loop(s2, i + 1)

\* GildedRose::update_quality, one call
update_quality ==
  /\ ticks < MaxTicks
  /\ items' = update_quality_loop(items, 1)
  /\ ticks' = ticks + 1
  /\ UNCHANGED items0

(* ---------------------------- specifications --------------------------- *)
SellIns == (-PastDays)..MaxSellIn

Qualities == ((-QBelow)..QHigh) \cup {80}

\* GildedRose::new(vec![item]): a one-item inventory, as every test builds
Init ==
  /\ \E n \in Names, s \in SellIns, q \in Qualities : items = <<Item(n, s, q)>>
  /\ items0 = items
  /\ ticks = 0

Next == update_quality

Spec == Init /\ [][Next]_vars

\* GildedRose::new(items) with zero to MaxItems items of mixed categories
ManyNames == {AGED_BRIE, BACKSTAGE_PASSES, SULFURAS, NameItem}

ManySellIns == {0, 1, 6}

ManyQualities == {0, 10, 49}

ManyItems == {Item(n, s, q) : n \in ManyNames, s \in ManySellIns, q \in ManyQualities}

InitMany ==
  /\ \E len \in 0..MaxItems : items \in [1..len -> ManyItems]
  /\ items0 = items
  /\ ticks = 0

SpecMany == InitMany /\ [][Next]_vars

TypeOK ==
  /\ ticks \in 0..MaxTicks
  /\ Len(items) = Len(items0)

(* ------------------- categories as the rules name them ----------------- *)
IsAgedStock(name) == name = AGED_BRIE

IsEventPass(name) == ~IsAgedStock(name) /\ Contains(name, BACKSTAGE_PASSES)

IsLegendary(name) ==
  ~IsAgedStock(name) /\ ~Contains(name, BACKSTAGE_PASSES) /\ Contains(name, SULFURAS)

IsPerishable(name) ==
  /\ ~IsAgedStock(name) /\ ~Contains(name, BACKSTAGE_PASSES)
  /\ ~Contains(name, SULFURAS) /\ Contains(name, CONJURED)

IsOrdinary(name) ==
  /\ ~IsAgedStock(name) /\ ~Contains(name, BACKSTAGE_PASSES)
  /\ ~Contains(name, SULFURAS) /\ ~Contains(name, CONJURED)

\* the per-day quality delta of the rule table, by category
RuleDelta(name, s, q) ==
  IF IsAgedStock(name) THEN (IF s < 1 THEN 2 ELSE 1)
  ELSE IF IsEventPass(name)
       THEN (IF s > 10 THEN 1 ELSE IF s > 5 THEN 2 ELSE IF s > 0 THEN 3 ELSE -q)
  ELSE IF IsPerishable(name) THEN (IF s < 1 THEN -4 ELSE -2)
  ELSE (IF s < 1 THEN -2 ELSE -1)

(* -------------------------------- C1 ----------------------------------- *)
\* C1: if every item not named *Sulfuras* started with 0 <= quality <= 50,
\* then after any number of update_quality calls every such item still has
\* 0 <= quality <= 50.
C1_QualityBound ==
  (\A i \in DOMAIN items0 :
      ~Contains(items0[i].name, SULFURAS) => items0[i].quality \in 0..50)
  => (\A i \in DOMAIN items :
      ~Contains(items[i].name, SULFURAS) => items[i].quality \in 0..50)

C1_Witness ==
  /\ ticks = 2
  /\ \E i \in DOMAIN items :
       /\ items[i].name = AGED_BRIE
       /\ items0[i].quality = 49 /\ items0[i].sell_in = 1
       /\ items[i].quality = 50

(* -------------------------------- C2 ----------------------------------- *)
\* C2: an Ordinary item with quality q in 0..50 and sell_in s has, after one
\* update_quality call, quality max(0, q-1) if s >= 1 and max(0, q-2) if
\* s <= 0, and sell_in s-1.
C2_OrdinaryRule ==
  [][\A i \in DOMAIN items :
       (IsOrdinary(items[i].name) /\ items[i].quality \in 0..50) =>
         /\ items'[i].quality =
              (IF items[i].sell_in >= 1 THEN Max(0, items[i].quality - 1)
                                        ELSE Max(0, items[i].quality - 2))
         /\ items'[i].sell_in = items[i].sell_in - 1]_vars

C2_Witness ==
  /\ ticks = 1
  /\ \E i \in DOMAIN items :
       /\ items[i].name = NameItem
       /\ items0[i].sell_in = 0 /\ items0[i].quality = 4
       /\ items[i].sell_in = -1 /\ items[i].quality = 2

(* -------------------------------- C3 ----------------------------------- *)
\* C3: an item named exactly "Aged Brie" with quality q in 0..50 and sell_in
\* s has, after one call, quality min(50, q+1) if s >= 1 and min(50, q+2)
\* if s < 1; so its quality never decreases and never exceeds 50.
C3_AgedBrieRule ==
  [][\A i \in DOMAIN items :
       (items[i].name = AGED_BRIE /\ items[i].quality \in 0..50) =>
         /\ items'[i].quality =
              (IF items[i].sell_in >= 1 THEN Min(50, items[i].quality + 1)
                                        ELSE Min(50, items[i].quality + 2))
         /\ items'[i].quality >= items[i].quality
         /\ items'[i].quality <= 50]_vars

C3_Witness ==
  /\ ticks = 1
  /\ \E i \in DOMAIN items :
       /\ items[i].name = AGED_BRIE
       /\ items0[i].sell_in = 0 /\ items0[i].quality = 49
       /\ items[i].sell_in = -1 /\ items[i].quality = 50

(* -------------------------------- C4 ----------------------------------- *)
\* C4: an item whose name contains "Backstage passes", with quality q in
\* 0..50 and sell_in s, has after one call quality min(50, q+1) if s > 10,
\* min(50, q+2) if 5 < s <= 10, min(50, q+3) if 0 < s <= 5 and 0 if s <= 0;
\* once it has dropped to 0 this way it is 0 after every later call.
C4_BackstageRule ==
  [][\A i \in DOMAIN items :
       /\ (Contains(items[i].name, BACKSTAGE_PASSES) /\ items[i].quality \in 0..50) =>
            items'[i].quality =
              (IF items[i].sell_in > 10 THEN Min(50, items[i].quality + 1)
               ELSE IF items[i].sell_in > 5 THEN Min(50, items[i].quality + 2)
               ELSE IF items[i].sell_in > 0 THEN Min(50, items[i].quality + 3)
               ELSE 0)
       /\ (/\ Contains(items[i].name, BACKSTAGE_PASSES)
           /\ ticks >= 1 /\ items[i].sell_in < 0 /\ items[i].quality = 0) =>
            items'[i].quality = 0]_vars

C4_Witness ==
  /\ ticks = 3
  /\ \E i \in DOMAIN items :
       /\ Contains(items[i].name, BACKSTAGE_PASSES)
       /\ items0[i].sell_in = 1 /\ items0[i].quality = 10
       /\ items[i].sell_in = -2 /\ items[i].quality = 0

(* -------------------------------- C5 ----------------------------------- *)
\* C5: a Legendary item (name contains "Sulfuras") keeps whatever quality
\* and sell_in it was constructed with, after any number of calls.
C5_LegendaryFrozen ==
  \A i \in DOMAIN items :
    IsLegendary(items0[i].name) =>
      /\ items[i].quality = items0[i].quality
      /\ items[i].sell_in = items0[i].sell_in

(* -------------------------------- C6 ----------------------------------- *)
\* C6: a Perishable item (name contains "Conjured") with quality q in 0..50
\* and sell_in s has, after one call, quality max(0, q-2) if s >= 1 and
\* max(0, q-4) if s < 1, and sell_in s-1.
C6_ConjuredRule ==
  [][\A i \in DOMAIN items :
       (IsPerishable(items[i].name) /\ items[i].quality \in 0..50) =>
         /\ items'[i].quality =
              (IF items[i].sell_in >= 1 THEN Max(0, items[i].quality - 2)
                                        ELSE Max(0, items[i].quality - 4))
         /\ items'[i].sell_in = items[i].sell_in - 1]_vars

(* -------------------------------- C7 ----------------------------------- *)
\* C7: after n calls a non-legendary item has sell_in = s0 - n, with no
\* floor, whatever its quality; a Legendary item has sell_in = s0.
C7_SellIn ==
  \A i \in DOMAIN items :
    items[i].sell_in =
      (IF IsLegendary(items[i].name) THEN items0[i].sell_in
                                     ELSE items0[i].sell_in - ticks)

C7_Witness ==
  /\ ticks = 3
  /\ \E i \in DOMAIN items :
       /\ ~IsLegendary(items[i].name)
       /\ items0[i].sell_in = 1
       /\ items[i].sell_in = -2

(* -------------------------------- C8 ----------------------------------- *)
\* C8: one call maps item i to what the same call yields for item i alone
\* in a one-element collection, its new quality being computed from its own
\* pre-call sell_in and quality; names, length and order are unchanged.
C8_Independence ==
  [][/\ Len(items') = Len(items)
     /\ \A i \in DOMAIN items :
          /\ items'[i] = update_quality_loop(<<items[i]>>, 1)[1]
          /\ items'[i].quality =
               calculate_new_quality(create_calculator(items[i]),
                                     items[i].sell_in, items[i].quality)
          /\ items'[i].name = items[i].name]_vars

C8_Witness ==
  /\ ticks = 1
  /\ Len(items) = 2
  /\ items0[1] = Item(BACKSTAGE_PASSES, 1, 10)
  /\ items0[2] = Item(NameItem, 0, 10)
  /\ items[1] = Item(BACKSTAGE_PASSES, 0, 13)
  /\ items[2] = Item(NameItem, -1, 8)

(* -------------------------------- C9 ----------------------------------- *)
\* C9: a non-legendary item with ANY integer quality q has, after one call,
\* quality max(0, min(50, q + d)), d being its category's delta for the
\* pre-call sell_in; so an out-of-range quality is in 0..50 one call later.
C9_ClampBothBounds ==
  [][\A i \in DOMAIN items :
       ~IsLegendary(items[i].name) =>
         /\ items'[i].quality =
              Max(0, Min(50, items[i].quality
                             + RuleDelta(items[i].name, items[i].sell_in, items[i].quality)))
         /\ items'[i].quality \in 0..50]_vars

(* -------------------------------- C10 ---------------------------------- *)
\* C10 (as stated): a "Backstage passes" item with quality in 0..50 gets a
\* strictly greater quality on every call that starts with sell_in > 0, and
\* quality 0 on a call that starts with sell_in <= 0.
C10_StrictlyIncreasing ==
  [][\A i \in DOMAIN items :
       (Contains(items[i].name, BACKSTAGE_PASSES) /\ items[i].quality \in 0..50) =>
         /\ items[i].sell_in > 0 => items'[i].quality > items[i].quality
         /\ items[i].sell_in <= 0 => items'[i].quality = 0]_vars

\* C10 (amended): on a call that starts with sell_in > 0 the quality is
\* strictly greater afterwards when it was below 50 and stays 50 when it was
\* 50; on a call that starts with sell_in <= 0 it becomes 0.
C10_IncreasingBelowCap ==
  [][\A i \in DOMAIN items :
       (Contains(items[i].name, BACKSTAGE_PASSES) /\ items[i].quality \in 0..50) =>
         /\ (items[i].sell_in > 0 /\ items[i].quality < 50) =>
              items'[i].quality > items[i].quality
         /\ (items[i].sell_in > 0 /\ items[i].quality = 50) =>
              items'[i].quality = 50
         /\ items[i].sell_in <= 0 => items'[i].quality = 0]_vars

C10_Witness ==
  /\ ticks = 1
  /\ \E i \in DOMAIN items :
       /\ Contains(items[i].name, BACKSTAGE_PASSES)
       /\ items0[i].sell_in = 5 /\ items0[i].quality = 50
       /\ items[i].sell_in = 4 /\ items[i].quality = 50

====
